---- MODULE Spec2Model ----
(***************************************************************************)
(* Model of app.py: a Streamlit retrieval-augmented question answering     *)
(* tool over XML-TEI bulletins.  The state is the Streamlit session        *)
(* (retriever handle, chat history, query template, uploaded files), the   *)
(* two directories on disk (vector_store, written by the index builder,    *)
(* and embeddings, read by the index loader) and the outcome of the last   *)
(* user-triggered action.  Each action is one handler run to completion.   *)
(***************************************************************************)
EXTENDS Integers, Sequences, FiniteSets, TLC

VARIABLES
    corpus,          \* files found by os.listdir in "." and "data", in order
    embDir,          \* EMBEDDINGS_DIR on disk (never written by the program)
    store,           \* LOCAL_VECTOR_STORE_DIR on disk
    retriever,       \* st.session_state.retriever
    messages,        \* st.session_state.messages
    query_prompt,    \* st.session_state.query_prompt
    uploaded_files,  \* st.session_state.uploaded_files
    uploader,        \* the files the st.file_uploader widget holds
    disk,            \* the files present in data/uploaded
    use_precomputed, \* st.session_state.use_precomputed (the checkbox)
    embeddings_available, \* embeddings_available in the last script run
    rerun_requested, \* st.rerun() was called and that run has not started
    widget_identity, \* how the installed streamlit identifies a widget
    prompt_area,     \* the text area: the widget drawn, the states held
    last             \* what the last handler did: inputs, return value, events

vars == <<corpus, embDir, store, retriever, messages, query_prompt,
          uploaded_files, uploader, disk, use_precomputed,
          embeddings_available, rerun_requested, widget_identity,
          prompt_area, last>>

(***************************************************************************)
(* Python values                                                           *)
(***************************************************************************)
None == "<None>"          \* None where a str is expected
NoKey == "<no key>"       \* a key absent from a metadata dict
Nothing == <<>>           \* None where an object, an int or a file is expected;
Some(x) == <<x>>          \* the object, the int or the file's content otherwise
The(S) == CHOOSE x \in S : TRUE   \* the one element of a singleton set
Corrupt == [corrupt |-> TRUE]   \* content of a file that cannot be read back

(***************************************************************************)
(* Bounds of the model                                                     *)
(***************************************************************************)
MaxUploaded == 3          \* uploaded_files holds at most this many paths
MaxMessages == 2          \* chat history entries

(***************************************************************************)
(* Program constants                                                       *)
(***************************************************************************)
BatchSize == 50
TopK == 3
FetchK == 20
DefaultModel == "sentence-transformers/paraphrase-multilingual-MiniLM-L12-v2"
OtherModel == "sentence-transformers/LaBSE"

(***************************************************************************)
(* Text.  A string is modelled by the sequence of its characters wherever  *)
(* the code looks inside it.                                               *)
(***************************************************************************)
Digits == {"0", "1", "2", "3", "4", "5", "6", "7", "8", "9"}
Letters == {"B", "u", "l", "e", "t", "i", "n", "o", "d", "g", "s", "h", "r",
            "a", "U", "k", "w", "D", "x", "_"}
WordChars == Digits \cup Letters

DigitVal(c) ==
    CASE c = "0" -> 0 [] c = "1" -> 1 [] c = "2" -> 2 [] c = "3" -> 3
      [] c = "4" -> 4 [] c = "5" -> 5 [] c = "6" -> 6 [] c = "7" -> 7
      [] c = "8" -> 8 [] c = "9" -> 9

\* The characters of the date strings that occur in the modelled corpus.
Chars(s) ==
    CASE s = "Bulletin, 1987" ->
           <<"B", "u", "l", "l", "e", "t", "i", "n", ",", " ", "1", "9", "8", "7">>
      [] s = "no digits here" ->
           <<"n", "o", " ", "d", "i", "g", "i", "t", "s", " ", "h", "e", "r", "e">>
      [] s = "1899 and 2045" ->
           <<"1", "8", "9", "9", " ", "a", "n", "d", " ", "2", "0", "4", "5">>
      [] s = "x1987" -> <<"x", "1", "9", "8", "7">>
      [] s = "19871" -> <<"1", "9", "8", "7", "1">>
      [] s = "Unknown Date" ->
           <<"U", "n", "k", "n", "o", "w", "n", " ", "D", "a", "t", "e">>
      [] OTHER -> <<>>

\* \b at the boundary between positions i-1 and i of cs (1-based).
WordBoundary(cs, i) ==
    LET before == i > 1 /\ cs[i - 1] \in WordChars
        after == i <= Len(cs) /\ cs[i] \in WordChars
    IN  before # after

AnyFourDigits(cs, i) ==
    /\ i + 3 <= Len(cs)
    /\ \A j \in i..(i + 3) : cs[j] \in Digits
    /\ WordBoundary(cs, i)
    /\ WordBoundary(cs, i + 4)

\* r'\b(19\d{2}|20\d{2})\b' matches at position i.
YearAt(cs, i) ==
    /\ i + 3 <= Len(cs)
    /\ \/ cs[i] = "1" /\ cs[i + 1] = "9"
       \/ cs[i] = "2" /\ cs[i + 1] = "0"
    /\ cs[i + 2] \in Digits
    /\ cs[i + 3] \in Digits
    /\ WordBoundary(cs, i)
    /\ WordBoundary(cs, i + 4)

\* extract_year on a str: the first match as an int, or None.
extract_year(date_str) ==
    LET cs == Chars(date_str)
        hits == {i \in 1..Len(cs) : YearAt(cs, i)}
    IN  IF hits = {} THEN Nothing
        ELSE LET i == CHOOSE h \in hits : \A g \in hits : h <= g
             IN  Some(1000 * DigitVal(cs[i]) + 100 * DigitVal(cs[i + 1])
                   + 10 * DigitVal(cs[i + 2]) + DigitVal(cs[i + 3]))

(***************************************************************************)
(* The files on disk.  A file is what ET.parse and the finds of            *)
(* parse_xmltei_document see in it: whether it parses, the text of its     *)
(* title element, of its sourceDesc/p/date element and of its sourceDesc/p *)
(* element (NoKey: no such element, None: element without text), and the   *)
(* number of fragments the text splitter cuts its text into.               *)
(***************************************************************************)
File(path) ==
    CASE path = "a.xml" ->
           [parses |-> TRUE, title |-> "Bulletin A", date |-> "Bulletin, 1987",
            sdp |-> None, chunks |-> 1]
      [] path = "b.xml" ->
           [parses |-> FALSE, title |-> NoKey, date |-> NoKey, sdp |-> NoKey,
            chunks |-> 0]
      [] path = "c.xmltei" ->
           [parses |-> TRUE, title |-> NoKey, date |-> NoKey, sdp |-> NoKey,
            chunks |-> 2]
      [] path = "d.xml" ->
           [parses |-> TRUE, title |-> "Bulletin D", date |-> NoKey,
            sdp |-> "1899 and 2045", chunks |-> 50]
      [] path = "e.xml" ->
           [parses |-> TRUE, title |-> None, date |-> "no digits here",
            sdp |-> "Bulletin, 1987", chunks |-> 51]
      [] path = "f.xml" ->
           [parses |-> TRUE, title |-> "Bulletin F", date |-> NoKey,
            sdp |-> None, chunks |-> 1]
      [] path = "g.xml" ->
           [parses |-> TRUE, title |-> "Bulletin G", date |-> None,
            sdp |-> "Bulletin, 1987", chunks |-> 1]
      [] OTHER ->
           [parses |-> FALSE, title |-> NoKey, date |-> NoKey, sdp |-> NoKey,
            chunks |-> 0]

\* parse_xmltei_document: the dict it returns, or None after any exception
\* (ET.parse failing, or re.search raising TypeError on a date text of None).
\* The dict's text is kept as the number of fragments it will be split into.
\* late: the files that no longer exist when ET.parse opens them.
parse_xmltei_document(file_path, late) ==
    LET f == File(file_path)
        title_text == IF f.title # NoKey THEN f.title ELSE "Unknown Title"
        date == IF f.date # NoKey THEN f.date ELSE f.sdp
        date_text == IF date # NoKey THEN date ELSE "Unknown Date"
    IN  IF file_path \in late \/ ~f.parses THEN Nothing
        ELSE IF date_text = None THEN Nothing
        ELSE Some([title |-> title_text, date |-> date_text,
                   year |-> extract_year(date_text), chunks |-> f.chunks])

\* The Document load_documents makes of a parsed file.
Document(file_path, doc_data) ==
    [source |-> file_path, title |-> doc_data.title, date |-> doc_data.date,
     year |-> doc_data.year, chunks |-> doc_data.chunks]

RECURSIVE AbortingLoadLoop(_, _, _)
AbortingLoadLoop(xml_files, documents, late) ==
    IF xml_files = <<>> THEN documents
    ELSE LET file_path == Head(xml_files)
             doc_data == parse_xmltei_document(file_path, late)
         IN  IF doc_data = Nothing THEN documents
             ELSE AbortingLoadLoop(Tail(xml_files),
                      Append(documents, Document(file_path, doc_data[1])),
                      late)

RECURSIVE LoadLoop(_, _, _)
\* The for loop of load_documents over xml_files: one Document per file whose
\* parse returned a dict, appended in enumeration order.
LoadLoop(xml_files, documents, late) ==
    IF xml_files = <<>> THEN documents
    ELSE LET file_path == Head(xml_files)
             doc_data == parse_xmltei_document(file_path, late)
         IN  LoadLoop(Tail(xml_files),
                      IF doc_data # Nothing
                        THEN Append(documents, Document(file_path, doc_data[1]))
                        ELSE documents,
                      late)

HasXmlExtension(path) ==
    path \in {"a.xml", "b.xml", "c.xmltei", "d.xml", "e.xml", "f.xml", "g.xml"}

ListingInBothModes(use_uploaded_only, uploaded, listing, on_disk) ==
    SelectSeq(listing, HasXmlExtension)

\* The candidate files of load_documents: the uploaded paths that exist
\* (on_disk: the files present in data/uploaded) and end in .xml or
\* .xmltei, or the listing of "." and "data".
xml_files_of(use_uploaded_only, uploaded, listing, on_disk) ==
    IF use_uploaded_only
      THEN SelectSeq(uploaded, LAMBDA p : p \in on_disk /\ HasXmlExtension(p))
      ELSE SelectSeq(listing, HasXmlExtension)

\* load_documents: the documents, the year map, and whether the
\* "No XML files found" error was shown.  xml_files is fixed by the
\* listing; `late` are the listed files that are gone when the loop comes
\* to parse them.
load_documents(use_uploaded_only, uploaded, listing, on_disk, late) ==
    LET xml_files == xml_files_of(use_uploaded_only, uploaded, listing, on_disk)
        documents == LoadLoop(xml_files, <<>>, late)
    IN  [xml_files |-> xml_files,
         documents |-> documents,
         document_dates |->
             {<<documents[i].source, documents[i].year>> :
                 i \in {j \in 1..Len(documents) : documents[j].year # Nothing}},
         no_files |-> xml_files = <<>>,
         parse_errors |->
             SelectSeq(xml_files,
                       LAMBDA p : parse_xmltei_document(p, late) = Nothing)]

RECURSIVE split_documents(_)
\* RecursiveCharacterTextSplitter.split_documents: the fragments of each
\* document in order, each carrying a copy of its document's metadata.
split_documents(documents) ==
    IF documents = <<>> THEN <<>>
    ELSE LET d == Head(documents)
         IN  [j \in 1..d.chunks |->
                 [source |-> d.source, title |-> d.title, date |-> d.date,
                  year |-> d.year, n |-> j]]
             \o split_documents(Tail(documents))

(***************************************************************************)
(* The vector index.  A FAISS store is the model whose vectors it holds    *)
(* and its fragments in insertion order; a retriever is such a store, the  *)
(* embedding model that embeds the queries, and the search configuration.  *)
(***************************************************************************)
\* FAISS.from_documents(texts, embeddings)
from_documents(texts, model_name) == [model |-> model_name, frags |-> texts]

\* vectordb.add_documents(batch)
add_documents(vectordb, batch) == [vectordb EXCEPT !.frags = @ \o batch]

\* vectordb.as_retriever(search_type=..., search_kwargs=...): the retriever
\* keeps the store, the embedding model of the store object, which embeds
\* the queries, and the search configuration it is given.
as_retriever(vectordb, query_model, search_type, search_kwargs) ==
    [vec_model |-> vectordb.model, frags |-> vectordb.frags,
     query_model |-> query_model, search_type |-> search_type,
     k |-> search_kwargs.k, fetch_k |-> search_kwargs.fetch_k]

LoadedWithDefaults(vectordb, query_model) ==
    as_retriever(vectordb, query_model, "similarity", [k |-> 4, fetch_k |-> 20])

\* load_precomputed_embeddings, lines 264-267
LoadedRetriever(vectordb, query_model) ==
    as_retriever(vectordb, query_model, "mmr", [k |-> 3, fetch_k |-> 20])

\* embeddings_on_local_vectordb, lines 306-309: after the bulk build
BulkRetriever(vectordb, query_model) ==
    as_retriever(vectordb, query_model, "mmr", [k |-> 3, fetch_k |-> 20])

\* embeddings_on_local_vectordb, lines 336-339: after the batch fallback
BatchRetriever(vectordb, query_model) ==
    as_retriever(vectordb, query_model, "mmr", [k |-> 3, fetch_k |-> 20])

Min(a, b) == IF a <= b THEN a ELSE b

\* batches = [texts[i:i + batch_size] for i in range(0, len(texts), batch_size)]
Batches(texts) ==
    [b \in 1..((Len(texts) + BatchSize - 1) \div BatchSize) |->
        SubSeq(texts, (b - 1) * BatchSize + 1, Min(b * BatchSize, Len(texts)))]

RECURSIVE MergeBatches(_, _, _)
\* The first batch initializes the store, the for loop adds batches 2..upto.
MergeBatches(batches, upto, model_name) ==
    IF upto = 1 THEN from_documents(batches[1], model_name)
    ELSE add_documents(MergeBatches(batches, upto - 1, model_name), batches[upto])

(***************************************************************************)
(* Writing the store directory.  An I/O step either succeeds or raises;    *)
(* `io` names the step that raises: "save_faiss" (save_local raises before *)
(* writing anything), "save_pkl" (after index.faiss, before index.pkl),    *)
(* "info_open" (open of model_info.pkl raises), "info_dump" (pickle.dump   *)
(* raises on the truncated file), or "ok".                                 *)
(***************************************************************************)
IOFaults == {"save_faiss", "save_pkl", "info_open", "info_dump"}

\* vectordb.save_local(LOCAL_VECTOR_STORE_DIR)
save_local(st, vectordb, io) ==
    IF io = "save_faiss" THEN st
    ELSE IF io = "save_pkl" THEN [st EXCEPT !.faiss = Some(vectordb)]
    ELSE [st EXCEPT !.faiss = Some(vectordb), !.pkl = Some(vectordb.frags)]

\* with open(LOCAL_VECTOR_STORE_DIR / "model_info.pkl", "wb") as f: pickle.dump(...)
write_model_info(st, model_name, n, io) ==
    IF io = "info_open" THEN st
    ELSE IF io = "info_dump" THEN [st EXCEPT !.info = Some(Corrupt)]
    ELSE [st EXCEPT !.info = Some([model_name |-> model_name,
                                  chunk_count |-> Some(n),
                                  document_count |-> Nothing])]

\* save_local, then the sidecar: the store directory afterwards and whether
\* both writes went through.
Persist(st, vectordb, n, io) ==
    IF io \in {"save_faiss", "save_pkl"}
      THEN [store |-> save_local(st, vectordb, io), ok |-> FALSE]
      ELSE [store |-> write_model_info(save_local(st, vectordb, io),
                                       vectordb.model, n, io),
            ok |-> io = "ok"]

(***************************************************************************)
(* embeddings_on_local_vectordb(texts, hf_api_key).  `fault` says what     *)
(* fails: fault.bulk is "embed" when FAISS.from_documents raises on the    *)
(* whole list, an I/O fault, or "ok"; in the fallback fault.batch is the   *)
(* number of the batch whose embedding raises (0: none) and fault.io the   *)
(* I/O fault of the second save.  The result is the return value, the      *)
(* store directory afterwards, the path taken, `built`: the number of      *)
(* batches held by the local vectordb when the function returned, and      *)
(* bulk_store: the store directory when the handler of the bulk attempt    *)
(* is entered.                                                             *)
(***************************************************************************)
embeddings_on_local_vectordb(texts, st, fault) ==
    LET model_name == DefaultModel
        bulk_raises == fault.bulk = "embed" \/ texts = <<>>
        bulk == IF bulk_raises THEN [store |-> st, ok |-> FALSE]
                ELSE Persist(st, from_documents(texts, model_name), Len(texts),
                             fault.bulk)
        batches == Batches(texts)
    IN  IF bulk.ok
          THEN [ret |-> Some(BulkRetriever(from_documents(texts, model_name),
                                           model_name)),
                store |-> bulk.store, path |-> "bulk", built |-> 0,
                events |-> <<>>, bulk_store |-> bulk.store]
        ELSE IF batches = <<>> \/ fault.batch = 1
          THEN [ret |-> Nothing, store |-> bulk.store, path |-> "batch",
                built |-> 0, bulk_store |-> bulk.store,
                events |-> <<"error: creating embeddings",
                             "error: batch processing">>]
        ELSE IF fault.batch \in 2..Len(batches)
          THEN [ret |-> Nothing, store |-> bulk.store, path |-> "batch",
                built |-> fault.batch - 1, bulk_store |-> bulk.store,
                events |-> <<"error: creating embeddings",
                             "error: batch processing">>]
        ELSE LET vectordb == MergeBatches(batches, Len(batches), model_name)
                 saved == Persist(bulk.store, vectordb, Len(texts), fault.io)
             IN  [ret |-> IF saved.ok
                            THEN Some(BatchRetriever(vectordb, model_name))
                            ELSE Nothing,
                  store |-> saved.store, path |-> "batch",
                  built |-> Len(batches), bulk_store |-> bulk.store,
                  events |-> IF saved.ok
                               THEN <<"error: creating embeddings">>
                               ELSE <<"error: creating embeddings",
                                      "error: batch processing">>]

(***************************************************************************)
(* process_documents(hf_api_key, use_uploaded_only).  fault.init: the      *)
(* HuggingFaceEmbeddings constructor raises (caught by process_documents). *)
(* `completed` records that the final "Traitement terminé!" success status *)
(* was shown, `loaded` that load_documents was called and `split` that the *)
(* splitter was.  ProcessWith is the body of process_documents once        *)
(* load_documents has given `loaded` and the splitter `texts`.             *)
(*                                                                         *)
(* Streamlit can end the script run at any st.* call, and what it raises   *)
(* is not an Exception, so neither handler catches it.  fault.stop names   *)
(* the call at which the run ends: "fallback" is the st.error that opens   *)
(* the handler of the bulk attempt (the store is as the bulk attempt left  *)
(* it), "finalising" one of the four progress and status calls after the   *)
(* builder has returned (the store is as the builder left it, the final    *)
(* status is not shown), "none" lets the run finish.  `stopped` is the     *)
(* stop that took effect; a stopped run returns nothing.  A run that ends  *)
(* at an earlier call has written nothing.                                 *)
(***************************************************************************)
ProcessWith(hf_api_key, loaded, texts, st, fault) ==
    LET built == embeddings_on_local_vectordb(texts, st, fault)
        sources == [i \in 1..Len(loaded.documents) |-> loaded.documents[i].source]
        base == [ret |-> Nothing, store |-> st, path |-> "none", built |-> 0,
                 events |-> <<>>, completed |-> FALSE, loaded |-> FALSE,
                 split |-> FALSE, xml_files |-> <<>>, sources |-> <<>>,
                 documents |-> <<>>, document_dates |-> {},
                 parse_errors |-> <<>>, stopped |-> "none"]
        reached == [base EXCEPT !.loaded = TRUE, !.split = TRUE,
                                !.xml_files = loaded.xml_files,
                                !.sources = sources,
                                !.documents = loaded.documents,
                                !.document_dates = loaded.document_dates,
                                !.parse_errors = loaded.parse_errors]
    IN  IF ~hf_api_key
          THEN [base EXCEPT !.events = <<"warning: provide the Hugging Face API key">>]
        ELSE IF loaded.documents = <<>>
          THEN [base EXCEPT !.loaded = TRUE, !.xml_files = loaded.xml_files,
                            !.documents = loaded.documents,
                            !.document_dates = loaded.document_dates,
                            !.parse_errors = loaded.parse_errors,
                            !.events = (IF loaded.no_files
                                          THEN <<"error: no XML files found">>
                                          ELSE <<>>)
                                       \o <<"error: no documents found to process">>]
        ELSE IF fault.init
          THEN [base EXCEPT !.loaded = TRUE, !.xml_files = loaded.xml_files,
                            !.sources = sources, !.split = TRUE,
                            !.documents = loaded.documents,
                            !.document_dates = loaded.document_dates,
                            !.parse_errors = loaded.parse_errors,
                            !.events = <<"error: une erreur s'est produite">>]
        ELSE IF fault.stop = "fallback" /\ built.path = "batch"
          THEN [reached EXCEPT !.store = built.bulk_store, !.path = "batch",
                               !.stopped = "fallback"]
        ELSE IF fault.stop = "finalising"
          THEN [reached EXCEPT !.store = built.store, !.path = built.path,
                               !.built = built.built, !.events = built.events,
                               !.stopped = "finalising"]
        ELSE [ret |-> built.ret, store |-> built.store, path |-> built.path,
              built |-> built.built, stopped |-> "none",
              events |-> built.events \o <<"success: traitement termine">>,
              completed |-> TRUE, loaded |-> TRUE, split |-> TRUE,
              xml_files |-> loaded.xml_files, sources |-> sources,
              documents |-> loaded.documents,
              document_dates |-> loaded.document_dates,
              parse_errors |-> loaded.parse_errors]

process_documents(hf_api_key, use_uploaded_only, uploaded, listing, on_disk, late, st, fault) ==
    The({ProcessWith(hf_api_key, loaded, texts, st, fault) :
           <<loaded, texts>> \in
               {<<l, split_documents(l.documents)>> :
                   l \in {load_documents(use_uploaded_only, uploaded, listing,
                                          on_disk, late)}}})

(***************************************************************************)
(* load_precomputed_embeddings().  ed is the embeddings directory: whether *)
(* faiss_index exists, the content of index.faiss, of index.pkl and of     *)
(* document_metadata.pkl.  fault: "init" (HuggingFaceEmbeddings raises),   *)
(* "load" (FAISS.load_local raises) or "ok".                               *)
(***************************************************************************)
\* Lines 231-248: the embedding model name chosen from the sidecar, and the
\* messages shown while choosing it.
SidecarModel(meta) ==
    IF meta = Nothing
      THEN [model |-> DefaultModel, opened |-> FALSE,
            events |-> <<"warning: metadata file not found">>]
    ELSE IF meta[1] = Corrupt
           \/ meta[1].chunk_count = Nothing
           \/ meta[1].document_count = Nothing
      THEN [model |-> DefaultModel, opened |-> TRUE,
            events |-> <<"warning: error loading metadata",
                         "warning: using default embedding model">>]
    ELSE IF meta[1].model_name # NoKey
      THEN [model |-> meta[1].model_name, opened |-> TRUE,
            events |-> <<"success: loaded pre-computed embeddings",
                         "info: embedding model">>]
    ELSE [model |-> DefaultModel, opened |-> TRUE,
          events |-> <<"success: loaded pre-computed embeddings",
                       "warning: model information not found">>]

PklFirstMissingArtifact(ed) ==
    IF ~ed.dir THEN "error: embeddings folder not found"
    ELSE IF ed.pkl = Nothing THEN "error: index.pkl not found"
    ELSE IF ed.faiss = Nothing THEN "error: index.faiss not found"
    ELSE "none"

\* Lines 219-229: the error of the first check that fails, or "none".
MissingArtifact(ed) ==
    IF ~ed.dir THEN "error: embeddings folder not found"
    ELSE IF ed.faiss = Nothing THEN "error: index.faiss not found"
    ELSE IF ed.pkl = Nothing THEN "error: index.pkl not found"
    ELSE "none"

load_precomputed_embeddings(ed, fault) ==
    LET side == SidecarModel(ed.meta)
    IN  IF MissingArtifact(ed) # "none"
          THEN [ret |-> Nothing, opened_metadata |-> FALSE,
                embedding_model |-> None, events |-> <<MissingArtifact(ed)>>]
        ELSE IF fault = "init"
          THEN [ret |-> Nothing, opened_metadata |-> side.opened,
                embedding_model |-> side.model,
                events |-> side.events \o <<"error: embeddings initialization">>]
        ELSE IF fault = "load" \/ ed.faiss[1] = Corrupt \/ ed.pkl[1] = Corrupt
          THEN [ret |-> Nothing, opened_metadata |-> side.opened,
                embedding_model |-> side.model,
                events |-> side.events \o <<"info: loading FAISS index",
                                            "error: loading FAISS index">>]
        ELSE [ret |-> Some(LoadedRetriever([model |-> ed.faiss[1].model,
                                            frags |-> ed.pkl[1]], side.model)),
              opened_metadata |-> side.opened,
              embedding_model |-> side.model,
              events |-> side.events \o <<"info: loading FAISS index",
                                          "success: FAISS index loaded">>]

(***************************************************************************)
(* Retrieval.  The embedding service and FAISS are external: an embedding  *)
(* is stood for by a point on a ring of 7 positions that depends on the    *)
(* model and on the text, similarity by closeness on the line.  The search *)
(* is the one the retriever is configured for: the fetch_k nearest         *)
(* fragments, then maximal marginal relevance down to k.                   *)
(***************************************************************************)
TextCode(source) ==
    CASE source = "a.xml" -> 1 [] source = "c.xmltei" -> 2 [] source = "d.xml" -> 3
      [] source = "e.xml" -> 4 [] source = "f.xml" -> 5 [] source = "p.xml" -> 6
      [] source = "q1" -> 2 [] source = "q2" -> 5 [] OTHER -> 0

EmbedText(model, source, n) ==
    IF model = DefaultModel THEN (TextCode(source) + 3 * n) % 7
    ELSE (2 * TextCode(source) + 5 * n + 1) % 7

Dist(a, b) == IF a >= b THEN a - b ELSE b - a

RECURSIVE NearestFrom(_, _, _, _)
\* The indices of the fragments at distance >= d from the query, nearest
\* first and in index order among equals.
NearestFrom(r, qv, d, idxs) ==
    IF d > 6 THEN <<>>
    ELSE SelectSeq(idxs,
                   LAMBDA i : Dist(qv, EmbedText(r.vec_model, r.frags[i].source,
                                                 r.frags[i].n)) = d)
         \o NearestFrom(r, qv, d + 1, idxs)

\* The largest element of a non-empty set of integers.
Max(S) == CHOOSE m \in S : \A x \in S : m >= x

\* equation_score of every candidate position not yet picked (doubled):
\* similarity to the query minus the similarity to the closest picked one.
\* vecs[c] is the vector of candidate c.
Scores(qv, vecs, picked) ==
    [c \in {x \in 1..Len(vecs) : \A j \in 1..Len(picked) : picked[j] # x} |->
        IF picked = <<>> THEN 0 - Dist(qv, vecs[c])
        ELSE (0 - Dist(qv, vecs[c]))
             - Max({0 - Dist(vecs[c], vecs[picked[j]]) : j \in 1..Len(picked)})]

\* The position with the best score, the first one among equals.
Best(score) ==
    CHOOSE c \in DOMAIN score :
        \A o \in DOMAIN score : \/ score[c] > score[o]
                                \/ score[c] = score[o] /\ c <= o

RECURSIVE MMR(_, _, _, _)
\* maximal_marginal_relevance with lambda_mult = 0.5: the positions picked
\* among the candidates, in the order they are picked, k at most.
MMR(k, qv, vecs, picked) ==
    IF Len(picked) >= Min(k, Len(vecs)) THEN picked
    ELSE The({MMR(k, qv, vecs, p) :
                p \in {Append(picked, Best(score)) :
                         score \in {Scores(qv, vecs, picked)}}})

\* retriever.invoke(query) when the search does not raise: the relevant
\* documents, in retrieval order.
Retrieve(r, query) ==
    LET qv == EmbedText(r.query_model, query, 0)
        Nearest == NearestFrom(r, qv, 0, [i \in 1..Len(r.frags) |-> i])
        Vecs(cand) == [c \in 1..Len(cand) |->
                          EmbedText(r.vec_model, r.frags[cand[c]].source,
                                    r.frags[cand[c]].n)]
    IN  The({[j \in 1..Len(picked) |-> r.frags[cand[picked[j]]]] :
               <<cand, picked>> \in
                   {<<c, MMR(r.k, qv, v, <<>>)>> :
                       <<c, v>> \in
                           {<<c, Vecs(c)>> :
                               c \in {SubSeq(near, 1, Min(r.fetch_k, Len(near))) :
                                        near \in {Nearest}}}}})

\* The vector sizes of the embedding models: FAISS raises when the query
\* vector's size differs from the index's.
Dimension(model) == IF model = DefaultModel THEN 384 ELSE 768

\* retriever.invoke(query): the documents, or Nothing when the search raises.
invoke(r, query) ==
    IF Dimension(r.query_model) # Dimension(r.vec_model) THEN Nothing
    ELSE Some(Retrieve(r, query))

(***************************************************************************)
(* Prompt assembly.  A template is its sequence of format-string tokens:   *)
(* literal text, "{query}", another replacement field such as              *)
(* "{question}" or "{}", an escaped brace "{{" or "}}", or a single brace. *)
(* A prompt is a sequence of parts: text, source lines, context entries.   *)
(***************************************************************************)
Text(t) == [kind |-> "text", text |-> t]

\* str(v) inside an f-string
Str(v) == IF v = None THEN "None" ELSE v

\* d.get(key, default) on a metadata value
Get(v, default) == IF v = NoKey THEN default ELSE v

RECURSIVE Format(_, _)
\* base_query_template.format(query=query): the formatted text, or Nothing
\* when str.format raises (ValueError on a single brace, IndexError on "{}",
\* KeyError on a field other than query).  A template without a field is
\* returned as it is.
Format(template, query) ==
    IF template = <<>> THEN Some(<<>>)
    ELSE LET tok == Head(template)
             rest == Format(Tail(template), query)
             out == IF tok = "{query}" THEN [kind |-> "query", text |-> query]
                    ELSE IF tok = "{{" THEN Text("{")
                    ELSE IF tok = "}}" THEN Text("}")
                    ELSE Text(tok)
         IN  IF tok \in {"{", "}", "{}", "{question}"} \/ rest = Nothing THEN Nothing
             ELSE Some(<<out>> \o rest[1])

DEFAULT_QUERY_PROMPT ==
    <<"Voici la requete de l'utilisateur :", "{query}", "# Instructions COSTAR">>

\* The system prompt of query_llm (lines 395-397).
system_prompt == "Tu es un agent RAG"

ShiftedContext(relevant_docs) ==
    [i \in 1..Len(relevant_docs) |->
        [kind |-> "context", n |-> i - 1,
         title |-> Str(Get(relevant_docs[i].title, "Document sans titre")),
         date |-> Str(Get(relevant_docs[i].date, "Date inconnue")),
         content |-> <<relevant_docs[i].source, relevant_docs[i].n>>]]

\* source_mapping: "Source {i+1}: {doc_title} | {doc_date}" per document.
SourceMapping(relevant_docs) ==
    [i \in 1..Len(relevant_docs) |->
        [kind |-> "source", n |-> i,
         title |-> Str(Get(relevant_docs[i].title, "Document sans titre")),
         date |-> Str(Get(relevant_docs[i].date, "Date inconnue"))]]

\* context_parts: "Source {i+1}:\nTitle: ...\nDate: ...\nContent: ..." per document.
ContextParts(relevant_docs) ==
    [i \in 1..Len(relevant_docs) |->
        [kind |-> "context", n |-> i,
         title |-> Str(Get(relevant_docs[i].title, "Document sans titre")),
         date |-> Str(Get(relevant_docs[i].date, "Date inconnue")),
         content |-> <<relevant_docs[i].source, relevant_docs[i].n>>]]

\* user_message = f"{formatted_query}{additional_instructions}"
UserMessage(formatted_query, relevant_docs) ==
    formatted_query
    \o <<Text("INSTRUCTIONS IMPORTANTES:"), Text("SOURCES DISPONIBLES:")>>
    \o SourceMapping(relevant_docs)
    \o <<Text("CONTEXTE DOCUMENTAIRE:")>>
    \o ContextParts(relevant_docs)

(***************************************************************************)
(* The generation backends (lines 428-603).                                *)
(***************************************************************************)
ModelChoices == {"openrouter", "llama", "gemma", "qwen", "mistral", "zephyr",
                 "gpt"}

OpenRouterKeyForAll(model_choice) == "openrouter"

\* Which key the branch of model_choice requires.
RequiredKey(model_choice) ==
    IF model_choice \in {"mistral", "zephyr"} THEN "hf" ELSE "openrouter"

\* The model the branch of model_choice calls.
BackendModel(model_choice) ==
    CASE model_choice = "gemma" -> "google/gemma-3n-e4b-it:free"
      [] model_choice = "qwen" -> "qwen/qwen3-32b:free"
      [] model_choice = "mistral" -> "mistralai/Mistral-7B-Instruct-v0.3"
      [] model_choice = "zephyr" -> "HuggingFaceH4/zephyr-7b-beta"
      [] OTHER -> "meta-llama/llama-4-maverick:free"

SeparateRolesForAll(model_choice, user_message) ==
    <<[role |-> "system", content |-> <<Text(system_prompt)>>],
      [role |-> "user", content |-> user_message]>>

\* The messages the branch of model_choice sends.
BackendMessages(model_choice, user_message) ==
    IF model_choice \in {"gemma", "mistral", "zephyr"}
      THEN <<[role |-> "user",
              content |-> <<Text(system_prompt), Text("\n\n")>> \o user_message]>>
      ELSE <<[role |-> "system", content |-> <<Text(system_prompt)>>],
             [role |-> "user", content |-> user_message]>>

\* The answer the branch of model_choice takes from the response: its
\* content for the chat models, and for the Hugging Face models the response
\* itself, through str() when it is not a str.
BackendAnswer(model_choice, content) ==
    IF model_choice \in {"mistral", "zephyr"} /\ content = Nothing
      THEN Some(<<"None">>)
      ELSE content

(***************************************************************************)
(* The answer text is the sequence of its whitespace characters and words. *)
(***************************************************************************)
\* The characters str.strip() removes, those for which str.isspace() is
\* true: the ASCII ones, and the others by their code point.
Whitespace ==
    {" ", "\t", "\n", "\r", "\f", "U+000B", "U+001C", "U+001D", "U+001E",
     "U+001F", "U+0085", "U+00A0", "U+1680", "U+2000", "U+2001", "U+2002",
     "U+2003", "U+2004", "U+2005", "U+2006", "U+2007", "U+2008", "U+2009",
     "U+200A", "U+2028", "U+2029", "U+202F", "U+205F", "U+3000"}

RECURSIVE LStrip(_)
LStrip(s) == IF s # <<>> /\ Head(s) \in Whitespace THEN LStrip(Tail(s)) ELSE s

RECURSIVE RStrip(_)
RStrip(s) ==
    IF s # <<>> /\ s[Len(s)] \in Whitespace THEN RStrip(SubSeq(s, 1, Len(s) - 1))
    ELSE s

\* str.strip()
Strip(s) == RStrip(LStrip(s))

\* The fixed answer of the empty retrieval (line 376).
NoDocumentAnswer == <<"Aucun document pertinent n'a ete trouve">>

EmptyRetrievalIgnored(relevant_docs) == FALSE

\* Line 374: not relevant_docs
NoRelevantDocs(relevant_docs) == relevant_docs = <<>>

\* Line 612: answer is None or answer.strip() == ""
InvalidAnswer(answer) == answer = Nothing \/ Strip(answer[1]) = <<>>

(***************************************************************************)
(* query_llm(retriever, query, hf_api_key, openai_api_key,                 *)
(* openrouter_api_key, model_choice).  template is                         *)
(* st.session_state.query_prompt, msgs is st.session_state.messages, resp  *)
(* is what the generation endpoint does if it is called: resp.raises, or   *)
(* resp.content (Nothing for None).  The result is the returned pair       *)
(* (answer, docs), the chat history afterwards, the messages shown, the    *)
(* calls made to the endpoint, and the parts of the prompt built.          *)
(* QueryWith is the body of query_llm once retriever.invoke(query) has     *)
(* given `found` and str.format has given `formatted` (Nothing: raised).   *)
(***************************************************************************)
QueryWith(found, formatted, query, hf_api_key, openrouter_api_key, model_choice, resp, msgs) ==
    LET relevant_docs == found[1]
        user_message == UserMessage(formatted[1], relevant_docs)
        call == [model |-> BackendModel(model_choice),
                 messages |-> BackendMessages(model_choice, user_message)]
        answer == BackendAnswer(model_choice, resp.content)
        has_key == IF RequiredKey(model_choice) = "hf" THEN hf_api_key
                   ELSE openrouter_api_key
        failed == [answer |-> Nothing, docs |-> Nothing, messages |-> msgs,
                   events |-> <<>>, calls |-> <<>>, retrieved |-> found,
                   source_mapping |-> <<>>, context_parts |-> <<>>,
                   formatted |-> Nothing]
        assembled == [failed EXCEPT !.source_mapping = SourceMapping(relevant_docs),
                                    !.context_parts = ContextParts(relevant_docs),
                                    !.formatted = formatted]
    IN  IF found = Nothing
          THEN [failed EXCEPT !.events = <<"error: erreur pendant la generation">>]
        ELSE IF NoRelevantDocs(relevant_docs)
          THEN [failed EXCEPT !.answer = Some(NoDocumentAnswer),
                              !.docs = Some(<<>>),
                              !.events = <<"warning: aucun document pertinent">>]
        ELSE IF formatted = Nothing
          THEN [failed EXCEPT !.source_mapping = SourceMapping(relevant_docs),
                              !.context_parts = ContextParts(relevant_docs),
                              !.events = <<"error: erreur pendant la generation">>]
        ELSE IF ~has_key
          THEN [assembled EXCEPT !.events = <<"error: API key is required">>]
        ELSE IF resp.raises
          THEN [assembled EXCEPT !.calls = <<call>>,
                                 !.events = <<"error: LLM invocation">>]
        ELSE IF InvalidAnswer(answer)
          THEN [assembled EXCEPT !.calls = <<call>>,
                                 !.events = <<"error: failed to get response">>]
        ELSE [assembled EXCEPT !.answer = Some(Strip(answer[1])),
                               !.docs = Some(relevant_docs),
                               !.messages = Append(msgs, <<query, Strip(answer[1])>>),
                               !.calls = <<call>>]

query_llm(r, query, hf_api_key, openrouter_api_key, model_choice, template, resp, msgs) ==
    The({QueryWith(found, formatted, query, hf_api_key, openrouter_api_key,
                   model_choice, resp, msgs) :
           found \in {invoke(r, query)}, formatted \in {Format(template, query)}})

\* boot, lines 966-979: one expander "Source {i+1}: {doc_title}" per
\* returned document, shown when source_docs is a non-empty list.
SourcePanel(source_docs) ==
    IF source_docs = Nothing THEN <<>>
    ELSE [i \in 1..Len(source_docs[1]) |->
            [n |-> i,
             title |-> Str(Get(source_docs[1][i].title, "Document sans titre")),
             date |-> Str(Get(source_docs[1][i].date, "Date inconnue")),
             file |-> Get(source_docs[1][i].source, "Fichier inconnu")]]

(***************************************************************************)
(* The environment the session starts in.                                  *)
(***************************************************************************)
\* Fragments of an index computed beforehand and shipped in embeddings/.
PrecomputedFrags ==
    <<[source |-> "p.xml", title |-> "Bulletin P", date |-> "Bulletin, 1987",
       year |-> Some(1987), n |-> 1],
      [source |-> "p.xml", title |-> "Bulletin P", date |-> "Bulletin, 1987",
       year |-> Some(1987), n |-> 2],
      [source |-> "a.xml", title |-> NoKey, date |-> NoKey,
       year |-> Nothing, n |-> 1],
      [source |-> "p.xml", title |-> "Bulletin P", date |-> "Bulletin, 1987",
       year |-> Some(1987), n |-> 3]>>

Sidecar(model_name, chunk_count, document_count) ==
    [model_name |-> model_name, chunk_count |-> chunk_count,
     document_count |-> document_count]

NoEmbeddings == [dir |-> FALSE, faiss |-> Nothing, pkl |-> Nothing, meta |-> Nothing]

\* embeddings/ holding an index of `frags` whose vectors were made by `model`.
Embeddings(model, frags, meta) ==
    [dir |-> TRUE, faiss |-> Some(from_documents(frags, model)),
     pkl |-> Some(frags), meta |-> meta]

Shipped(model, meta) == Embeddings(model, PrecomputedFrags, meta)

EmbDirsAll ==
    {NoEmbeddings,
     Shipped(DefaultModel, Nothing),
     Shipped(OtherModel, Some(Sidecar(OtherModel, Some(4), Some(1)))),
     [Shipped(DefaultModel, Nothing) EXCEPT !.faiss = Nothing, !.pkl = Nothing],
     [Shipped(DefaultModel, Nothing) EXCEPT !.faiss = Nothing],
     [Shipped(DefaultModel, Nothing) EXCEPT !.pkl = Nothing],
     [Shipped(DefaultModel, Nothing) EXCEPT !.faiss = Some(Corrupt)],
     Shipped(DefaultModel, Some(Corrupt)),
     Shipped(OtherModel, Some(Corrupt)),
     Shipped(OtherModel, Nothing),
     Shipped(OtherModel, Some(Sidecar(OtherModel, Some(4), Nothing))),
     Shipped(OtherModel, Some(Sidecar(OtherModel, Nothing, Some(1)))),
     Shipped(DefaultModel, Some(Sidecar(NoKey, Some(4), Some(1)))),
     Shipped(OtherModel, Some(Sidecar(NoKey, Some(4), Some(1)))),
     Shipped(DefaultModel, Some(Sidecar(DefaultModel, Some(4), Some(1))))}

\* A usable index, an index whose vectors the default model cannot query,
\* and an index without fragments.
EmbDirsQuery ==
    {Shipped(DefaultModel, Nothing),
     Shipped(OtherModel, Nothing),
     Embeddings(DefaultModel, <<>>, Nothing)}

EmptyStore == [faiss |-> Nothing, pkl |-> Nothing, info |-> Nothing]

(***************************************************************************)
(* Actions: one per user-triggered handler of boot and input_fields.       *)
(* Every user action is one script run, and a script run begins with       *)
(* input_fields(): the checkbox of the pre-computed embeddings is rendered *)
(* again and the files the uploader holds are written and listed again.    *)
(* The buttons a user can click are the ones the last script run drew, so  *)
(* the guards read the session as that run left it; the run of the click   *)
(* reads the folders as they are then.  A script run that calls st.rerun() *)
(* ends there, and the run it asks for is a step of its own.               *)
(***************************************************************************)
\* What the file uploader can hold: sequences over `files`, a name more
\* than once when the same file is dropped again.
RECURSIVE WidgetsUpTo(_, _)
WidgetsUpTo(files, n) ==
    IF n = 0 THEN {<<>>}
    ELSE LET shorter == WidgetsUpTo(files, n - 1)
         IN  shorter \cup {Append(w, f) : w \in shorter, f \in files}

Widgets(files) == WidgetsUpTo(files, Cardinality(files))

RECURSIVE Refill(_, _)
\* for file_path in new_files: append it if it is not in the list yet.
Refill(uploaded, widget) ==
    IF widget = <<>> THEN uploaded
    ELSE Refill(IF \E i \in 1..Len(uploaded) : uploaded[i] = Head(widget)
                  THEN uploaded
                  ELSE Append(uploaded, Head(widget)),
                Tail(widget))

\* with open(file_path, "wb") as f: f.write(uploaded_file.getbuffer())
Saved(on_disk, widget) ==
    on_disk \cup {widget[i] : i \in 1..Len(widget)}

\* How the installed streamlit identifies a widget between script runs: by
\* its key alone, or by its arguments together with its key.
WidgetIdentities == {"key", "arguments"}

\* The value of the checkbox "Utiliser embeddings pre-calcules" in a script
\* run.  `checked` is the value the widget holds and was_available the
\* existence of the embeddings folder when the widget was last drawn.  A
\* widget identified by its key keeps its value; one identified by its
\* arguments keeps it while they are the same, and is a new widget at its
\* default, the existence of the folder, when they change.
Checkbox(identity, checked, was_available, ed) ==
    IF identity = "key" \/ ed.dir = was_available THEN checked ELSE ed.dir

\* The identity of the text area drawn with value=`value`.
AreaId(identity, value) ==
    IF identity = "key" THEN [key |-> "query_prompt_area", value |-> <<>>]
    ELSE [key |-> "query_prompt_area", value |-> value]

\* The text the text area on the page shows.
AreaText(area) ==
    The({s.text : s \in {x \in area.state : x.id = area.drawn}})

\* st.text_area("Query prompt", value=st.session_state.query_prompt,
\* key="query_prompt_area") in one script run.  `area` is the widget drawn
\* by the last run and the widget states the session holds, `edit` the
\* text the user typed into the widget on the page (Nothing: none).  The
\* widget of this run returns the state held under its identity, or
\* `value` when it is a new widget.  A run that reaches its end
\* (`finished`) drops the state of every widget it has not drawn; a run
\* ended by st.rerun() or stopped by streamlit keeps them.
TextArea(identity, area, value, edit, finished) ==
    LET typed == IF edit = Nothing THEN area.state
                 ELSE {s \in area.state : s.id # area.drawn}
                      \cup {[id |-> area.drawn, text |-> edit[1]]}
        id == AreaId(identity, value)
        held == {s \in typed : s.id = id}
        text == IF held = {} THEN value ELSE The({s.text : s \in held})
        drawn == [id |-> id, text |-> text]
    IN  [text |-> text,
         area |-> [drawn |-> id,
                   state |-> IF finished THEN {drawn}
                             ELSE {s \in typed : s.id # id} \cup {drawn}]]

\* The uploader block of input_fields in a script run where the uploader
\* holds `widget`.
InputFields(widget) ==
    /\ uploader' = widget
    /\ uploaded_files' = Refill(uploaded_files, widget)
    /\ disk' = Saved(disk, widget)

\* The widgets of input_fields() before the uploader block: the checkbox,
\* which holds `checked` when the run starts, and the text area.
Sidebar(checked, edit, finished) ==
    /\ use_precomputed'
          = Checkbox(widget_identity, checked, embeddings_available, embDir)
    /\ embeddings_available' = embDir.dir
    /\ \E drawn \in {TextArea(widget_identity, prompt_area, query_prompt, edit,
                              finished)} :
          /\ query_prompt' = drawn.text
          /\ prompt_area' = drawn.area
    /\ widget_identity' = widget_identity

\* input_fields() in a script run that reaches its end: the checkbox holds
\* `checked`, the uploader `widget` and the text area the text `edit` when
\* the run starts.
ScriptRun(checked, widget, edit) ==
    /\ Sidebar(checked, edit, TRUE)
    /\ InputFields(widget)
    /\ rerun_requested' = FALSE

\* The user changes the content of the file uploader: every file it holds
\* is written, and those not listed yet are appended in its order.  The
\* change may come before a requested run starts, which then reads it.
Upload(files) ==
    /\ \E w \in Widgets(files) :
         /\ w # uploader
         /\ Len(Refill(uploaded_files, w)) <= MaxUploaded
         /\ ScriptRun(use_precomputed, w, Nothing)
         /\ last' = [op |-> "upload", files |-> w,
                     saved |-> Len(w)]
    /\ UNCHANGED <<corpus, embDir, store, retriever, messages>>

\* A script run without a handler: the run st.rerun() asked for, or the
\* run of an event on a widget that has no state here.
Rerun ==
    /\ ScriptRun(use_precomputed, uploader, Nothing)
    /\ last' = [op |-> "rerun", requested |-> rerun_requested]
    /\ UNCHANGED <<corpus, embDir, store, retriever, messages>>

\* "Effacer tous", shown while a file is listed: the run of the click goes
\* through the checkbox, the text area and the uploader block, empties the
\* list and ends at st.rerun().
ClearFiles ==
    /\ ~rerun_requested
    /\ uploaded_files # <<>>
    /\ Sidebar(use_precomputed, Nothing, FALSE)
    /\ uploaded_files' = <<>>
    /\ disk' = Saved(disk, uploader)
    /\ rerun_requested' = TRUE
    /\ last' = [op |-> "clear_files"]
    /\ UNCHANGED <<corpus, embDir, store, retriever, messages, uploader>>

\* The checkbox "Utiliser embeddings pre-calcules": enabled when the
\* embeddings folder existed as the page was drawn.
TogglePrecomputed ==
    /\ embeddings_available
    /\ ScriptRun(~use_precomputed, uploader, Nothing)
    /\ last' = [op |-> "toggle_precomputed"]
    /\ UNCHANGED <<corpus, embDir, store, retriever, messages>>

\* The embeddings folder is removed from the disk, from outside the
\* program: the session and the page are as they were until the next
\* script run.
RemoveEmbeddings ==
    /\ embDir.dir
    /\ embDir' = NoEmbeddings
    /\ last' = [op |-> "remove_embeddings"]
    /\ UNCHANGED <<corpus, store, retriever, messages, query_prompt,
                   uploaded_files, uploader, disk, use_precomputed,
                   embeddings_available, rerun_requested, widget_identity,
                   prompt_area>>

\* A file of data/uploaded is removed from the disk, from outside the
\* program.
RemoveUploaded ==
    /\ \E f \in disk :
         /\ disk' = disk \ {f}
         /\ last' = [op |-> "remove_uploaded", file |-> f]
    /\ UNCHANGED <<corpus, embDir, store, retriever, messages, query_prompt,
                   uploaded_files, uploader, use_precomputed,
                   embeddings_available, rerun_requested, widget_identity,
                   prompt_area>>

\* The user types another text into the text area of the query prompt.
\* The run of the edit assigns what the text area returns: the typed text
\* when the widget of this run is the one the page showed, the text of
\* st.session_state.query_prompt when it is a new widget.
EditPrompt(templates) ==
    /\ ~rerun_requested
    /\ \E t \in templates :
         /\ t # AreaText(prompt_area)
         /\ ScriptRun(use_precomputed, uploader, Some(t))
         /\ last' = [op |-> "edit_prompt", text |-> t]
    /\ UNCHANGED <<corpus, embDir, store, retriever, messages>>

\* "Reinitialiser le prompt": the run of the click goes through the
\* checkbox and the text area, sets the prompt and ends at st.rerun(),
\* before the uploader block.
ResetPrompt ==
    /\ ~rerun_requested
    /\ use_precomputed'
          = Checkbox(widget_identity, use_precomputed, embeddings_available,
                     embDir)
    /\ embeddings_available' = embDir.dir
    /\ prompt_area' = TextArea(widget_identity, prompt_area, query_prompt,
                               Nothing, FALSE).area
    /\ query_prompt' = DEFAULT_QUERY_PROMPT
    /\ rerun_requested' = TRUE
    /\ last' = [op |-> "reset_prompt"]
    /\ UNCHANGED <<corpus, embDir, store, retriever, messages,
                   uploaded_files, uploader, disk, widget_identity>>

LoadKeepingOnFailure(faults, removals) ==
    /\ ~rerun_requested
    /\ use_precomputed
    /\ IF ~Checkbox(widget_identity, use_precomputed, embeddings_available,
                    embDir)
         THEN /\ last' = [op |-> "rerun", requested |-> FALSE]
              /\ UNCHANGED <<retriever, embDir>>
         ELSE \E fault \in faults, removed \in removals :
                LET ed == IF removed THEN NoEmbeddings ELSE embDir
                    out == load_precomputed_embeddings(ed, fault)
                IN  /\ retriever' = IF out.ret = Nothing THEN retriever
                                    ELSE out.ret
                    /\ embDir' = ed
                    /\ last' = [op |-> "load", fault |-> fault,
                                removed |-> removed,
                                opened_metadata |-> out.opened_metadata,
                                embedding_model |-> out.embedding_model,
                                had_retriever |-> retriever # Nothing,
                                result |-> Some(out.ret),
                                events |-> out.events]
    /\ ScriptRun(use_precomputed, uploader, Nothing)
    /\ UNCHANGED <<corpus, store, messages>>

\* "Charger embeddings pre-calcules", shown when the checkbox was ticked
\* as the page was drawn.  In the run of the click the button is there
\* again, and its handler runs, only if the checkbox is still ticked.
\* `removed`: the embeddings folder is removed between the rendering of the
\* checkbox and the call of the loader.  `result` is what
\* load_precomputed_embeddings returned.
Load(faults, removals) ==
    /\ ~rerun_requested
    /\ use_precomputed
    /\ IF ~Checkbox(widget_identity, use_precomputed, embeddings_available,
                    embDir)
         THEN /\ last' = [op |-> "rerun", requested |-> FALSE]
              /\ UNCHANGED <<retriever, embDir>>
         ELSE \E fault \in faults, removed \in removals :
                LET ed == IF removed THEN NoEmbeddings ELSE embDir
                    out == load_precomputed_embeddings(ed, fault)
                IN  /\ retriever' = out.ret
                    /\ embDir' = ed
                    /\ last' = [op |-> "load", fault |-> fault,
                                removed |-> removed,
                                opened_metadata |-> out.opened_metadata,
                                embedding_model |-> out.embedding_model,
                                had_retriever |-> retriever # Nothing,
                                result |-> Some(out.ret),
                                events |-> out.events]
    /\ ScriptRun(use_precomputed, uploader, Nothing)
    /\ UNCHANGED <<corpus, store, messages>>

\* "Traiter les documents", shown when the checkbox was not ticked or a
\* file was listed as the page was drawn.  The run of the click writes the
\* uploader's files, and load_documents tests later which of the listed
\* files exist: `gone` are the files removed from data/uploaded in
\* between, `late` the candidate files removed after load_documents has
\* listed them and before it parses them (from data/uploaded, or from the
\* folders of the corpus).  The store is written inside the builder; the
\* retriever is assigned when process_documents has returned, so a run
\* that streamlit ends before then leaves the retriever as it was.
\* `result` is what process_documents returned (Nothing: it did not
\* return).
Ingest(keys, modes, faults, removals) ==
    /\ ~rerun_requested
    /\ ~use_precomputed \/ uploaded_files # <<>>
    /\ \E hf_api_key \in keys, use_uploaded_only \in modes, fault \in faults,
          gone \in removals, late \in removals :
         /\ gone \subseteq Saved(disk, uploader)
         /\ \E out \in {process_documents(hf_api_key, use_uploaded_only,
                                          Refill(uploaded_files, uploader),
                                          corpus,
                                          Saved(disk, uploader) \ gone,
                                          late, store, fault)} :
             /\ \A p \in late : \E i \in 1..Len(out.xml_files) :
                                   out.xml_files[i] = p
             /\ out.stopped = fault.stop
             /\ retriever' = IF out.stopped = "none" THEN out.ret
                             ELSE retriever
             /\ store' = out.store
             /\ Sidebar(use_precomputed, Nothing, out.stopped = "none")
             /\ last' = [op |-> "ingest", hf_api_key |-> hf_api_key,
                         use_uploaded_only |-> use_uploaded_only,
                         fault |-> fault, gone |-> gone, late |-> late,
                         uploaded |-> Refill(uploaded_files, uploader),
                         listing |-> corpus,
                         on_disk |-> Saved(disk, uploader) \ gone,
                         path |-> out.path,
                         built |-> out.built, events |-> out.events,
                         completed |-> out.completed, loaded |-> out.loaded,
                         split |-> out.split, wrote |-> out.store # store,
                         stopped |-> out.stopped,
                         result |-> IF out.stopped = "none" THEN Some(out.ret)
                                    ELSE Nothing,
                         had_retriever |-> retriever # Nothing,
                         xml_files |-> out.xml_files, sources |-> out.sources,
                         documents |-> out.documents,
                         document_dates |-> out.document_dates,
                         parse_errors |-> out.parse_errors]
         /\ disk' = IF use_uploaded_only
                      THEN (Saved(disk, uploader) \ gone) \ late
                      ELSE Saved(disk, uploader) \ gone
         /\ corpus' = IF use_uploaded_only THEN corpus
                      ELSE SelectSeq(corpus, LAMBDA p : p \notin late)
    /\ uploader' = uploader
    /\ uploaded_files' = Refill(uploaded_files, uploader)
    /\ rerun_requested' = FALSE
    /\ UNCHANGED <<embDir, messages>>

QueryAnsweredWithoutRetriever(queries) ==
    /\ ~rerun_requested
    /\ retriever = Nothing
    /\ Len(messages) < MaxMessages
    /\ \E query \in queries :
         /\ messages' = Append(messages, <<query, NoDocumentAnswer>>)
         /\ last' = [op |-> "query_rejected", query |-> query,
                     events |-> <<>>]
    /\ ScriptRun(use_precomputed, uploader, Nothing)
    /\ UNCHANGED <<corpus, embDir, store, retriever>>

\* A question typed in the chat input while no retriever is active.
QueryRejected(queries) ==
    /\ ~rerun_requested
    /\ retriever = Nothing
    /\ \E query \in queries :
         last' = [op |-> "query_rejected", query |-> query,
                  events |-> <<"error: veuillez d'abord charger les embeddings">>]
    /\ ScriptRun(use_precomputed, uploader, Nothing)
    /\ UNCHANGED <<corpus, embDir, store, retriever, messages>>

QueryClosingRetriever(inputs) ==
    /\ ~rerun_requested
    /\ retriever # Nothing
    /\ Len(messages) < MaxMessages
    /\ ScriptRun(use_precomputed, uploader, Nothing)
    /\ \E in \in inputs :
         \E out \in {query_llm(retriever[1], in.query, in.hf_api_key,
                               in.openrouter_api_key, in.model_choice,
                               query_prompt', in.resp, messages)} :
             /\ messages' = out.messages
             /\ retriever' = IF out.answer = Nothing THEN Nothing ELSE retriever
             /\ last' = [op |-> "query", in |-> in, before |-> messages,
                         session |-> [retriever |-> retriever,
                                      query_prompt |-> query_prompt',
                                      uploaded_files |-> uploaded_files',
                                      use_precomputed |-> use_precomputed'],
                         answer |-> out.answer, docs |-> out.docs,
                         events |-> out.events, calls |-> out.calls,
                         retrieved |-> out.retrieved,
                         source_mapping |-> out.source_mapping,
                         context_parts |-> out.context_parts,
                         formatted |-> out.formatted,
                         panel |-> SourcePanel(out.docs)]
    /\ UNCHANGED <<corpus, embDir, store>>

\* A question typed in the chat input: input_fields, then query_llm on the
\* session as input_fields left it (`session`), then the answer and the
\* source panel are shown.
Query(inputs) ==
    /\ ~rerun_requested
    /\ retriever # Nothing
    /\ Len(messages) < MaxMessages
    /\ ScriptRun(use_precomputed, uploader, Nothing)
    /\ \E in \in inputs :
         \E out \in {query_llm(retriever[1], in.query, in.hf_api_key,
                               in.openrouter_api_key, in.model_choice,
                               query_prompt', in.resp, messages)} :
             /\ messages' = out.messages
             /\ last' = [op |-> "query", in |-> in, before |-> messages,
                         session |-> [retriever |-> retriever,
                                      query_prompt |-> query_prompt',
                                      uploaded_files |-> uploaded_files',
                                      use_precomputed |-> use_precomputed'],
                         answer |-> out.answer, docs |-> out.docs,
                         events |-> out.events, calls |-> out.calls,
                         retrieved |-> out.retrieved,
                         source_mapping |-> out.source_mapping,
                         context_parts |-> out.context_parts,
                         formatted |-> out.formatted,
                         panel |-> SourcePanel(out.docs)]
    /\ UNCHANGED <<corpus, embDir, store, retriever>>

(***************************************************************************)
(* Inputs                                                                  *)
(***************************************************************************)
NoFault == [init |-> FALSE, bulk |-> "ok", batch |-> 0, io |-> "ok",
            stop |-> "none"]

\* What can fail in one run of the builder: the constructor; or the bulk
\* attempt (embedding or one write) followed by a fallback in which batch
\* 1, 2 or 3 fails, or nothing does, or the same or another write fails;
\* or the script run is ended in the handler of the bulk attempt or after
\* the builder has returned.
BuildFaults ==
    {NoFault, [NoFault EXCEPT !.init = TRUE]}
    \cup {[init |-> FALSE, bulk |-> b, batch |-> i, io |-> "ok",
            stop |-> "none"] :
            b \in {"embed"} \cup IOFaults, i \in 0..3}
    \cup {[init |-> FALSE, bulk |-> "embed", batch |-> 0, io |-> x,
            stop |-> "none"] : x \in IOFaults}
    \cup {[init |-> FALSE, bulk |-> x, batch |-> 0, io |-> x,
            stop |-> "none"] : x \in IOFaults}
    \cup {[NoFault EXCEPT !.stop = "finalising"],
          [NoFault EXCEPT !.bulk = "embed", !.stop = "finalising"],
          [NoFault EXCEPT !.bulk = "embed", !.stop = "fallback"],
          [NoFault EXCEPT !.bulk = "save_pkl", !.stop = "fallback"]}

LoadFaults == {"ok", "init", "load"}

Templates ==
    {DEFAULT_QUERY_PROMPT,
     <<"Reponds en francais.">>,
     <<"{question}", "# Instructions">>,
     <<"{{", "{query}", "}}", "{">>}

Reply(content) == [raises |-> FALSE, content |-> content]

GoodReply == Reply(Some(<<"\n", "Selon", " ", "Source 1", " ">>))

\* A reply that ends in a CR LF line end, after a no-break space.
CrLfReply == Reply(Some(<<"Selon", " ", "Source 1", "U+00A0", "\r", "\n">>))

Responses ==
    {[raises |-> TRUE, content |-> Nothing],
     Reply(Nothing),
     Reply(Some(<<>>)),
     Reply(Some(<<" ", "\n", "\t">>)),
     Reply(Some(<<"\r">>)),
     Reply(Some(<<"U+000B", "\f", "U+0085">>)),
     GoodReply,
     CrLfReply}

QueryInput(query, hf, openrouter, model_choice, resp) ==
    [query |-> query, hf_api_key |-> hf, openrouter_api_key |-> openrouter,
     model_choice |-> model_choice, resp |-> resp]

\* Every model choice with every combination of keys, and, with both keys,
\* every response of the endpoint for every model choice, and for a second
\* query.
QueryInputs ==
    {QueryInput("q1", hf, openrouter, m, GoodReply) :
        hf \in BOOLEAN, openrouter \in BOOLEAN, m \in ModelChoices}
    \cup {QueryInput("q1", TRUE, TRUE, m, resp) :
            m \in ModelChoices, resp \in Responses}
    \cup {QueryInput("q2", TRUE, TRUE, "llama", resp) : resp \in Responses}

\* The questions of the retrieval specification.
RetrieveInputs ==
    {QueryInput(q, TRUE, TRUE, "llama", GoodReply) : q \in {"q1", "q2"}}

\* The faults of the session specification: the bulk and the first batch
\* fail, or the script run ends after the builder has returned.
SessionBuildFaults ==
    {NoFault, [NoFault EXCEPT !.bulk = "embed", !.batch = 1],
     [NoFault EXCEPT !.stop = "finalising"]}

SessionLoadFaults == {"ok", "load"}

SessionTemplates == {DEFAULT_QUERY_PROMPT, <<"Reponds en francais.">>}

\* The constructor of the embedding model raises, or the bulk attempt does.
InitFaults == {NoFault, [NoFault EXCEPT !.init = TRUE]}

BulkFaults == {NoFault, [NoFault EXCEPT !.bulk = "embed"]}

\* The files the user drops on the uploader.
Uploadable == {"c.xmltei", "g.xml"}

\* The files removed from data/uploaded during a run of the ingestion.
Removals == {{}, {"c.xmltei"}}

\* The inputs of the session specification: one good, one blank and one
\* failing response, one missing key, and one Hugging Face call that
\* returns None.
SessionInputs ==
    {QueryInput("q1", TRUE, TRUE, "llama", GoodReply),
     QueryInput("q1", TRUE, TRUE, "gemma", Reply(Some(<<" ">>))),
     QueryInput("q1", TRUE, TRUE, "qwen", [raises |-> TRUE, content |-> Nothing]),
     QueryInput("q2", FALSE, TRUE, "mistral", GoodReply),
     QueryInput("q1", TRUE, TRUE, "zephyr", Reply(Nothing))}

(***************************************************************************)
(* Specifications                                                          *)
(***************************************************************************)
\* The session after the first script run.
InitWith(corpora, embDirs) ==
    /\ corpus \in corpora
    /\ embDir \in embDirs
    /\ store = EmptyStore
    /\ retriever = Nothing
    /\ messages = <<>>
    /\ query_prompt = DEFAULT_QUERY_PROMPT
    /\ uploaded_files = <<>>
    /\ uploader = <<>>
    /\ disk = {}
    /\ use_precomputed = embDir.dir
    /\ embeddings_available = embDir.dir
    /\ rerun_requested = FALSE
    /\ widget_identity \in WidgetIdentities
    /\ prompt_area
          = TextArea(widget_identity, [drawn |-> <<>>, state |-> {}],
                     DEFAULT_QUERY_PROMPT, Nothing, TRUE).area
    /\ last = [op |-> "boot"]

\* The session: every handler, on a small corpus.
Init == InitWith({<<"a.xml", "b.xml", "c.xmltei">>},
                 {Shipped(DefaultModel, Nothing)})

Next ==
    \/ Upload({"f.xml"})
    \/ ClearFiles
    \/ Rerun
    \/ TogglePrecomputed
    \/ RemoveEmbeddings
    \/ RemoveUploaded
    \/ EditPrompt(SessionTemplates)
    \/ ResetPrompt
    \/ Load(SessionLoadFaults, BOOLEAN)
    \/ Ingest(BOOLEAN, {FALSE}, SessionBuildFaults, {{}})
    \/ QueryRejected({"q1"})
    \/ Query(SessionInputs)

Spec == Init /\ [][Next]_vars

\* The ingestion pipeline: a corpus large enough for three batches, and
\* every fault of the builder.
InitIndex ==
    InitWith({<<"a.xml", "b.xml", "c.xmltei", "f.xml", "d.xml", "e.xml">>},
             {Shipped(DefaultModel, Nothing)})

NextIndex ==
    \/ Upload({"e.xml"})
    \/ ClearFiles
    \/ Rerun
    \/ Load({"ok"}, {FALSE})
    \/ Ingest({TRUE}, BOOLEAN, BuildFaults, {{}})

SpecIndex == InitIndex /\ [][NextIndex]_vars

\* The index loader, on every state of the embeddings folder.
InitLoad == InitWith({<<"a.xml">>}, EmbDirsAll)

NextLoad ==
    \/ TogglePrecomputed
    \/ RemoveEmbeddings
    \/ Rerun
    \/ Load(LoadFaults, BOOLEAN)
    \/ Ingest({TRUE}, {FALSE}, {NoFault}, {{}})

SpecLoad == InitLoad /\ [][NextLoad]_vars

\* query_llm, on every template, model choice, key and response.
InitQuery == InitWith({<<"a.xml">>}, EmbDirsQuery)

NextQuery ==
    \/ EditPrompt(Templates)
    \/ Load({"ok"}, {FALSE})
    \/ QueryRejected({"q1"})
    \/ Query(QueryInputs)

SpecQuery == InitQuery /\ [][NextQuery]_vars

\* The corpus loader and the parser: a folder without XML files, folders
\* whose files parse, fail to parse, or lack a title or a date, and both
\* selection modes with and without uploaded files.
Corpora ==
    {<<"notes.txt">>,
     <<"a.xml", "g.xml", "c.xmltei">>,
     <<"d.xml", "e.xml", "notes.txt">>,
     <<"b.xml", "f.xml">>}

InitCorpus == InitWith(Corpora, {Shipped(DefaultModel, Nothing)})

NextCorpus ==
    \/ Upload(Uploadable)
    \/ ClearFiles
    \/ Rerun
    \/ RemoveUploaded
    \/ TogglePrecomputed
    \/ Ingest({TRUE}, BOOLEAN, InitFaults, Removals)

SpecCorpus == InitCorpus /\ [][NextCorpus]_vars

\* Retrieval: indexes of 3 and of 51 fragments built by the bulk path or by
\* the batch fallback, and the shipped index of 4 fragments.
InitRetrieve ==
    InitWith({<<"a.xml", "c.xmltei">>, <<"d.xml", "f.xml", "a.xml">>},
             {Shipped(DefaultModel, Nothing)})

NextRetrieve ==
    \/ TogglePrecomputed
    \/ Load({"ok"}, {FALSE})
    \/ Ingest({TRUE}, {FALSE}, BulkFaults, {{}})
    \/ Query(RetrieveInputs)

SpecRetrieve == InitRetrieve /\ [][NextRetrieve]_vars

\* The credential checks: every model choice with every combination of
\* keys, on a usable index, an unusable one and one without fragments.
KeyInputs ==
    {QueryInput("q1", hf, openrouter, m, GoodReply) :
        hf \in BOOLEAN, openrouter \in BOOLEAN, m \in ModelChoices}

InitKeys == InitWith({<<"a.xml", "b.xml", "c.xmltei">>}, EmbDirsQuery)

NextKeys ==
    \/ TogglePrecomputed
    \/ Load({"ok"}, {FALSE})
    \/ Ingest(BOOLEAN, {FALSE}, {NoFault}, {{}})
    \/ Query(KeyInputs)

SpecKeys == InitKeys /\ [][NextKeys]_vars

(***************************************************************************)
(* Properties                                                              *)
(***************************************************************************)
Queries == {"q1", "q2"}

\* The fragments the last ingest handed to the builder.
IngestTexts ==
    split_documents(load_documents(last.use_uploaded_only, last.uploaded,
                                   last.listing, last.on_disk,
                                   last.late).documents)

\* The store directory holds a complete index with the sidecar of that index.
Persisted ==
    /\ store.faiss # Nothing
    /\ store.pkl = Some(store.faiss[1].frags)
    /\ store.info = Some(Sidecar(store.faiss[1].model,
                                 Some(Len(store.faiss[1].frags)), Nothing))

\* C1: once the builder has persisted an index, a run of the loader returns
\* a retriever over that persisted index: it answers every query with the
\* fragments, in the order, that the retriever of the build answers with.
C1_RoundTrip ==
    (last.op = "load" /\ Persisted)
        => /\ retriever # Nothing
           /\ retriever[1].frags = store.faiss[1].frags
           /\ \A q \in Queries :
                invoke(retriever[1], q)
                    = invoke(BulkRetriever(store.faiss[1], store.faiss[1].model), q)

\* C2: whenever the store directory holds an index, it holds the sidecar
\* written for that index: the model of its vectors and its fragment count.
C2_IndexHasItsSidecar ==
    store.faiss # Nothing
        => /\ store.info # Nothing
           /\ store.info[1] # Corrupt
           /\ store.info[1].model_name = store.faiss[1].model
           /\ store.info[1].chunk_count = Some(Len(store.faiss[1].frags))

\* The last ingest ran to its end and failed in the fallback on a batch
\* after the first.
LaterBatchFailed ==
    /\ last.op = "ingest"
    /\ last.stopped = "none"
    /\ last.path = "batch"
    /\ last.built >= 1
    /\ last.built < Len(Batches(IngestTexts))

\* C3: when a batch after the first fails, no retriever is returned and the
\* index built from the earlier batches remains available to the caller.
C3_PartialIndexKept ==
    LaterBatchFailed
        => /\ retriever = Nothing
           /\ store.faiss # Nothing
           /\ store.faiss[1].frags
                = SubSeq(IngestTexts, 1, last.built * BatchSize)

\* The last ingest ran to its end, went through the fallback and every
\* batch was embedded.
EveryBatchSucceeded ==
    /\ last.op = "ingest"
    /\ last.stopped = "none"
    /\ last.path = "batch"
    /\ last.built >= 1
    /\ last.built = Len(Batches(IngestTexts))

\* The index of all the fragments, in order, is persisted with its sidecar
\* and returned as a retriever.
WholeIndexBuilt ==
    /\ retriever # Nothing
    /\ retriever[1].frags = IngestTexts
    /\ \A i, j \in 1..Len(retriever[1].frags) :
         retriever[1].frags[i] = retriever[1].frags[j] => i = j
    /\ Persisted
    /\ store.faiss[1].frags = IngestTexts
    /\ store.info[1].model_name = DefaultModel

\* C4: after a failed bulk attempt the fragments are cut into consecutive
\* slices of at most 50 in order, the first slice initialises the index and
\* the later ones are merged in order; if every batch succeeds the whole
\* index, holding every fragment once, is persisted with its sidecar and a
\* retriever is returned.
C4_BatchFallback ==
    EveryBatchSucceeded
        => /\ WholeIndexBuilt
           /\ \A b \in 1..Len(Batches(IngestTexts)) :
                /\ Len(Batches(IngestTexts)[b]) <= BatchSize
                /\ Batches(IngestTexts)[b]
                     = SubSeq(IngestTexts, (b - 1) * BatchSize + 1,
                              (b - 1) * BatchSize + Len(Batches(IngestTexts)[b]))

\* The sidecar can be read and records a model name.
SidecarNamesModel ==
    /\ embDir.meta # Nothing
    /\ embDir.meta[1] # Corrupt
    /\ embDir.meta[1].model_name # NoKey

\* C5: a load that reaches the embedding model instantiates it with the
\* model name the sidecar records, and with the default only when the
\* sidecar is missing, unreadable or records no model name.
C5_RecordedModelUsed ==
    (last.op = "load" /\ last.embedding_model # None)
        => last.embedding_model
             = IF SidecarNamesModel THEN embDir.meta[1].model_name
               ELSE DefaultModel

\* C6: the loader checks the folder, then index.faiss, then index.pkl, and
\* at the first failed check returns no retriever, naming that artifact,
\* before reading the sidecar or instantiating the embedding model; a
\* missing or unreadable sidecar only makes it warn and use the default
\* model.
C6_LoadValidation ==
    last.op = "load"
        => IF ~embDir.dir
             THEN /\ retriever = Nothing
                  /\ last.events = <<"error: embeddings folder not found">>
                  /\ ~last.opened_metadata /\ last.embedding_model = None
           ELSE IF embDir.faiss = Nothing
             THEN /\ retriever = Nothing
                  /\ last.events = <<"error: index.faiss not found">>
                  /\ ~last.opened_metadata /\ last.embedding_model = None
           ELSE IF embDir.pkl = Nothing
             THEN /\ retriever = Nothing
                  /\ last.events = <<"error: index.pkl not found">>
                  /\ ~last.opened_metadata /\ last.embedding_model = None
           ELSE (embDir.meta = Nothing \/ embDir.meta[1] = Corrupt)
                  => /\ last.embedding_model = DefaultModel
                     /\ last.events[1] \in {"warning: metadata file not found",
                                            "warning: error loading metadata"}
                     /\ (/\ last.fault = "ok"
                         /\ embDir.faiss[1] # Corrupt
                         /\ embDir.pkl[1] # Corrupt) => retriever # Nothing

C6_Witness ==
    /\ last.op = "load"
    /\ embDir.dir
    /\ embDir.faiss = Nothing
    /\ embDir.pkl = Nothing
    /\ retriever = Nothing

HasPlaceholder(template) ==
    \E i \in 1..Len(template) : template[i] = "{query}"

\* C7: with a template that lacks the {query} placeholder, a query that
\* retrieved fragments and has the key of its backend fails in prompt
\* assembly: no payload is produced, the endpoint is not called, (None, None)
\* is returned and an error is shown.
C7_MissingPlaceholderFails ==
    (/\ last.op = "query"
     /\ last.retrieved # Nothing
     /\ last.retrieved # Some(<<>>)
     /\ last.in.hf_api_key /\ last.in.openrouter_api_key
     /\ ~HasPlaceholder(query_prompt))
        => /\ last.formatted = Nothing
           /\ last.calls = <<>>
           /\ last.answer = Nothing
           /\ last.docs = Nothing
           /\ last.events = <<"error: erreur pendant la generation">>

\* C8: the sources of one call are numbered 1..n in retrieval order, and
\* line i of the source list, entry i of the context block and expander i
\* of the source panel all carry the title and date of fragment i.
C8_SourceNumbering ==
    (last.op = "query" /\ last.retrieved # Nothing /\ last.retrieved # Some(<<>>))
        => LET d == last.retrieved[1]
               Same(part, i) ==
                   /\ part.n = i
                   /\ d[i].title \notin {NoKey, None} => part.title = d[i].title
                   /\ d[i].date \notin {NoKey, None} => part.date = d[i].date
                   /\ part.title = last.source_mapping[i].title
                   /\ part.date = last.source_mapping[i].date
           IN  /\ Len(last.source_mapping) = Len(d)
               /\ Len(last.context_parts) = Len(d)
               /\ \A i \in 1..Len(d) :
                    /\ Same(last.source_mapping[i], i)
                    /\ Same(last.context_parts[i], i)
                    /\ last.context_parts[i].content = <<d[i].source, d[i].n>>
               /\ last.docs # Nothing
                    => /\ last.docs[1] = d
                       /\ Len(last.panel) = Len(d)
                       /\ \A i \in 1..Len(d) :
                            /\ Same(last.panel[i], i)
                            /\ last.panel[i].file = d[i].source

C8_Witness ==
    /\ last.op = "query"
    /\ last.docs # Nothing
    /\ Len(last.panel) = TopK
    /\ Len(last.context_parts) = TopK
    /\ \E i \in 1..TopK : last.panel[i].title = "Document sans titre"
    /\ \E i \in 1..TopK : last.panel[i].title = "Bulletin P"

\* C9: a file that fails to parse does not abort the batch: every candidate
\* file is processed and the documents are the candidates whose parse
\* succeeded, one each, in enumeration order.
C9_FailedFilesSkipped ==
    (last.op = "ingest" /\ last.loaded)
        => /\ last.xml_files
                = xml_files_of(last.use_uploaded_only, last.uploaded,
                               last.listing, last.on_disk)
           /\ last.sources
                = SelectSeq(last.xml_files,
                            LAMBDA path :
                                parse_xmltei_document(path, last.late) # Nothing)

C9_Witness ==
    /\ last.op = "ingest"
    /\ last.loaded
    /\ last.xml_files = <<"a.xml", "b.xml", "c.xmltei", "f.xml", "d.xml", "e.xml">>
    /\ last.sources = <<"a.xml", "c.xmltei", "d.xml", "e.xml">>
    /\ retriever # Nothing

\* The endpoint returned no text, an empty string or only whitespace.
BlankReply(resp) ==
    /\ ~resp.raises
    /\ \/ resp.content = Nothing
       \/ \A i \in 1..Len(resp.content[1]) : resp.content[1][i] \in Whitespace

\* C10: when the endpoint was called and returned no text, an empty string
\* or whitespace only, query_llm returns (None, None) and the chat history
\* is left as it was.
C10_BlankAnswerFails ==
    (last.op = "query" /\ last.calls # <<>> /\ BlankReply(last.in.resp))
        => /\ last.answer = Nothing
           /\ last.docs = Nothing
           /\ messages = last.before

\* C11: a query whose retrieval returns no fragment does not fail: it
\* returns the fixed answer with an empty source list, assembles no prompt,
\* calls no endpoint, shows a warning and no error, and leaves the chat
\* history unchanged.
C11_EmptyRetrieval ==
    (last.op = "query" /\ last.retrieved = Some(<<>>))
        => /\ last.answer = Some(NoDocumentAnswer)
           /\ last.docs = Some(<<>>)
           /\ last.formatted = Nothing
           /\ last.source_mapping = <<>>
           /\ last.context_parts = <<>>
           /\ last.calls = <<>>
           /\ last.events = <<"warning: aucun document pertinent">>
           /\ last.panel = <<>>
           /\ messages = last.before

\* An empty retrieval for a query whose backend has its key and would have
\* answered.
C11_Witness ==
    /\ last.op = "query"
    /\ last.retrieved = Some(<<>>)
    /\ last.in.openrouter_api_key
    /\ last.in.model_choice = "llama"
    /\ last.in.resp = GoodReply
    /\ last.answer = Some(NoDocumentAnswer)

\* The key that the branch of the model choice of the last query checks is
\* missing: the Hugging Face key for mistral and zephyr, the OpenRouter key
\* for every other choice.
CredentialMissing ==
    /\ last.op = "query"
    /\ IF last.in.model_choice \in {"mistral", "zephyr"}
         THEN ~last.in.hf_api_key
         ELSE ~last.in.openrouter_api_key

\* process_documents without the Hugging Face key returns None before it
\* loads a document, splits, embeds or writes anything.
IngestBlockedWithoutKey ==
    (last.op = "ingest" /\ ~last.hf_api_key)
        => /\ retriever = Nothing
           /\ ~last.loaded /\ ~last.split /\ ~last.wrote
           /\ last.path = "none"
           /\ ~last.completed
           /\ last.events = <<"warning: provide the Hugging Face API key">>

\* C12 (as stated): whenever the key required by the selected backend is
\* missing, query_llm calls no endpoint, returns (None, None) and leaves the
\* chat history unchanged; and process_documents without the Hugging Face
\* key returns no retriever before loading or writing.
C12_AsStated ==
    /\ CredentialMissing
          => /\ last.calls = <<>>
             /\ last.answer = Nothing /\ last.docs = Nothing
             /\ messages = last.before
    /\ IngestBlockedWithoutKey

\* C12 (amended): with the required key missing query_llm never calls the
\* endpoint and never changes the chat history; it returns (None, None)
\* whenever the retrieval returned at least one fragment or failed, and the
\* fixed "no relevant document" answer with an empty source list when the
\* retrieval returned no fragment (the credential check is then not
\* reached).  process_documents is blocked as stated.
C12_CredentialBlocks ==
    /\ CredentialMissing
          => /\ last.calls = <<>>
             /\ messages = last.before
             /\ IF last.retrieved = Some(<<>>)
                  THEN last.answer = Some(NoDocumentAnswer) /\ last.docs = Some(<<>>)
                  ELSE last.answer = Nothing /\ last.docs = Nothing
             /\ (last.formatted # Nothing
                    => last.events = <<"error: API key is required">>)
    /\ IngestBlockedWithoutKey

\* A query for a Hugging Face backend that retrieved fragments and formatted
\* its prompt, blocked although the OpenRouter key is present.
C12_Witness ==
    /\ CredentialMissing
    /\ last.in.model_choice = "zephyr"
    /\ last.in.openrouter_api_key
    /\ last.retrieved \notin {Nothing, Some(<<>>)}
    /\ last.formatted # Nothing
    /\ last.events = <<"error: API key is required">>

\* load_documents ran in the last ingestion and found no candidate file:
\* as it listed them, no uploaded path that existed in data/uploaded, or
\* no file of the folders "." and "data", ended in .xml or .xmltei.
NoCandidateFile ==
    /\ last.op = "ingest"
    /\ last.hf_api_key
    /\ IF last.use_uploaded_only
         THEN \A i \in 1..Len(last.uploaded) :
                 \/ last.uploaded[i] \notin last.on_disk
                 \/ last.uploaded[i] \notin
                       {"a.xml", "b.xml", "c.xmltei", "d.xml", "e.xml",
                        "f.xml", "g.xml"}
         ELSE \A i \in 1..Len(last.listing) :
                 last.listing[i] \notin
                     {"a.xml", "b.xml", "c.xmltei", "d.xml", "e.xml",
                      "f.xml", "g.xml"}

\* C13: when no candidate file is found in the selection mode,
\* load_documents returns no document and an empty year map and shows the
\* "no XML files found" error; process_documents then returns no retriever
\* without splitting, embedding or writing the persisted index.
C13_NoFilesFound ==
    NoCandidateFile
        => /\ last.loaded
           /\ last.xml_files = <<>>
           /\ last.documents = <<>>
           /\ last.document_dates = {}
           /\ last.events = <<"error: no XML files found",
                              "error: no documents found to process">>
           /\ retriever = Nothing
           /\ ~last.split /\ last.path = "none" /\ ~last.wrote
           /\ ~last.completed

\* An ingestion restricted to the uploaded files while none is uploaded, in
\* a folder that holds XML files.
C13_Witness ==
    /\ NoCandidateFile
    /\ last.use_uploaded_only
    /\ uploaded_files = <<>>
    /\ corpus = <<"a.xml", "g.xml", "c.xmltei">>
    /\ last.events[1] = "error: no XML files found"

\* C14: every retriever, whether the load, the bulk build or the batch
\* fallback made it, is an MMR retriever with k = 3 and a pool of 20; a
\* query returns at most k fragments and at most as many as the index
\* holds, each of them a fragment of the index and none twice.
C14_RetrievalBound ==
    /\ retriever # Nothing
          => /\ retriever[1].search_type = "mmr"
             /\ retriever[1].k = TopK
             /\ retriever[1].fetch_k = FetchK
    /\ (last.op = "query" /\ last.retrieved # Nothing)
          => LET docs == last.retrieved[1]
                 frags == retriever[1].frags
             IN  /\ Len(docs) <= TopK
                 /\ Len(docs) <= Len(frags)
                 /\ \A i, j \in 1..Len(docs) : docs[i] = docs[j] => i = j
                 /\ \A i \in 1..Len(docs) :
                       \E f \in 1..Len(frags) : frags[f] = docs[i]

\* A query on the shipped index of 4 fragments, loaded after an ingestion
\* had built and persisted an index of more than 20: it returns 3 of them.
C14_Witness ==
    /\ last.op = "query"
    /\ retriever # Nothing
    /\ retriever[1].frags = PrecomputedFrags
    /\ last.retrieved # Nothing
    /\ Len(last.retrieved[1]) = TopK
    /\ store.faiss # Nothing
    /\ Len(store.faiss[1].frags) > FetchK

\* The year of every document that the last ingestion loaded with the date
\* text `date_text` is `year`.
YearOf(date_text, year) ==
    last.op = "ingest"
        => \A i \in 1..Len(last.documents) :
              last.documents[i].date = date_text
                  => /\ last.documents[i].year = year
                     /\ (year # Nothing
                           => <<last.documents[i].source, year>>
                                  \in last.document_dates)

\* C15 (as stated): "Bulletin, 1987" yields 1987, "no digits here" yields
\* no year, "1899 and 2045" yields 1899.
C15_AsStated ==
    /\ YearOf("Bulletin, 1987", Some(1987))
    /\ YearOf("no digits here", Nothing)
    /\ YearOf("1899 and 2045", Some(1899))

\* C15 (amended): "Bulletin, 1987" yields 1987, "no digits here" yields no
\* year, and "1899 and 2045" yields 2045: 1899 is not a 19xx or 20xx token,
\* so the first match is 2045.
C15_YearExtraction ==
    /\ YearOf("Bulletin, 1987", Some(1987))
    /\ YearOf("no digits here", Nothing)
    /\ YearOf("1899 and 2045", Some(2045))

\* An ingestion that loaded the document dated "1899 and 2045" and the one
\* dated "no digits here".
C15_Witness ==
    /\ last.op = "ingest"
    /\ \E i \in 1..Len(last.documents) :
          last.documents[i].date = "1899 and 2045"
    /\ \E i \in 1..Len(last.documents) :
          last.documents[i].date = "no digits here"
    /\ last.document_dates = {<<"d.xml", Some(2045)>>}

\* C16: every candidate file of an ingestion that is well-formed XML and has
\* neither a title element nor a date element nor a source-description
\* paragraph is loaded with the two sentinels and without a year; every one
\* in which the title and the date elements are present is loaded with
\* exactly their text as title and date.
C16_ParserFields ==
    (last.op = "ingest" /\ last.loaded)
        => \A i \in 1..Len(last.xml_files) :
              LET f == File(last.xml_files[i])
                  Loaded(title, date) ==
                      \E d \in 1..Len(last.documents) :
                          /\ last.documents[d].source = last.xml_files[i]
                          /\ last.documents[d].title = title
                          /\ last.documents[d].date = date
                          /\ (date = "Unknown Date"
                                => last.documents[d].year = Nothing)
              IN  /\ (f.parses /\ f.title = NoKey /\ f.date = NoKey /\ f.sdp = NoKey)
                        => Loaded("Unknown Title", "Unknown Date")
                  /\ (f.parses /\ f.title # NoKey /\ f.date # NoKey)
                        => Loaded(f.title, f.date)

\* C17: an ingestion that ran to its end and whose build failed on the
\* bulk and on the batch path returns no retriever and does not show the
\* final success status; the success status is shown only when a retriever
\* is returned.
C17_FailurePropagated ==
    (last.op = "ingest" /\ last.stopped = "none")
        => /\ (\E e \in 1..Len(last.events) :
                  last.events[e] = "error: batch processing")
                 => retriever = Nothing /\ ~last.completed
           /\ last.completed => retriever # Nothing

C19_OneCallWithBothParts ==
    (/\ last.op = "query"
     /\ last.formatted # Nothing
     /\ IF last.in.model_choice \in {"mistral", "zephyr"}
          THEN last.in.hf_api_key
          ELSE last.in.openrouter_api_key)
        => LET user == last.formatted[1]
                       \o <<Text("INSTRUCTIONS IMPORTANTES:"),
                            Text("SOURCES DISPONIBLES:")>>
                       \o last.source_mapping
                       \o <<Text("CONTEXTE DOCUMENTAIRE:")>>
                       \o last.context_parts
               system == <<Text(system_prompt)>>
               m == last.in.model_choice
           IN  /\ Len(last.calls) = 1
               /\ last.source_mapping # <<>>
               /\ IF m \in {"gemma", "mistral", "zephyr"}
                    THEN last.calls[1].messages =
                             <<[role |-> "user",
                                content |-> system \o <<Text("\n\n")>> \o user]>>
                    ELSE last.calls[1].messages =
                             <<[role |-> "system", content |-> system],
                               [role |-> "user", content |-> user]>>
               /\ m \notin {"gemma", "qwen", "mistral", "zephyr"}
                     => last.calls[1].model = "meta-llama/llama-4-maverick:free"

\* A query for an unrecognized model choice, with the OpenRouter key only,
\* that called the Llama model.
C19_Witness ==
    /\ last.op = "query"
    /\ last.in.model_choice = "gpt"
    /\ last.in.openrouter_api_key /\ ~last.in.hf_api_key
    /\ Len(last.calls) = 1
    /\ Len(last.calls[1].messages) = 2
    /\ last.answer # Nothing

\* The last load or ingest action failed: the load found no readable
\* index or one of its steps raised; the ingestion had no key, loaded no
\* document, or its builder failed on both paths.
ActionFailed ==
    \/ /\ last.op = "load"
       /\ \/ last.fault # "ok"
          \/ ~embDir.dir
          \/ embDir.faiss \in {Nothing, Some(Corrupt)}
          \/ embDir.pkl = Nothing
    \/ /\ last.op = "ingest"
       /\ \/ ~last.hf_api_key
          \/ last.documents = <<>>
          \/ last.fault.init
          \/ \E e \in 1..Len(last.events) :
                last.events[e] = "error: batch processing"

\* The last action was a load or an ingestion whose call returned.
Returned == last.op \in {"load", "ingest"} /\ last.result # Nothing

\* C20: after every load or ingest action the active retriever is what
\* the action returned: None when the action failed, whatever retriever
\* was active before, and the retriever over the loaded or built index
\* when it succeeded; an ingestion that streamlit stops before
\* process_documents returns has no result and leaves the active
\* retriever as it was; while the retriever is None every query is
\* rejected, and it becomes active again only by a load or an ingest that
\* succeeded.
C20_HandleIsLastResult ==
    [][
        /\ Returned'
              => /\ retriever' = last'.result[1]
                 /\ IF ActionFailed' THEN retriever' = Nothing
                    ELSE /\ retriever' # Nothing
                         /\ retriever'[1].frags =
                                IF last'.op = "load" THEN embDir'.pkl[1]
                                ELSE store'.pkl[1]
        /\ (last'.op \in {"load", "ingest"} /\ ~Returned')
              => (retriever' = retriever)
        /\ (last'.op = "query") => (retriever # Nothing)
        /\ (retriever = Nothing /\ last'.op \in {"query", "query_rejected"})
              => (last'.op = "query_rejected" /\ retriever' = Nothing)
        /\ (retriever = Nothing /\ retriever' # Nothing)
              => (Returned' /\ ~ActionFailed')
      ]_vars

\* A failed load or ingest that discarded an active retriever.
C20_Witness ==
    /\ ActionFailed
    /\ last.had_retriever
    /\ retriever = Nothing

\* `answer` is `content` without its leading and trailing whitespace.
Stripped(content, answer) ==
    /\ answer # <<>>
    /\ Head(answer) \notin Whitespace
    /\ answer[Len(answer)] \notin Whitespace
    /\ \E a \in 0..Len(content) :
          /\ a + Len(answer) <= Len(content)
          /\ SubSeq(content, a + 1, a + Len(answer)) = answer
          /\ \A i \in (1..a) \cup ((a + Len(answer) + 1)..Len(content)) :
                content[i] \in Whitespace

\* C21: the chat history starts empty and only a query changes it; a query
\* whose generation call returned text that is not blank appends the pair
\* of the query and the stripped text, and every other query (empty
\* retrieval, failed retrieval, missing key, template failure, endpoint
\* error, blank or missing answer) leaves it unchanged; every recorded
\* answer is non-empty without leading or trailing whitespace.
C21_HistoryAppendOnly ==
    [][
        /\ (last.op = "boot") => (messages = <<>>)
        /\ (last'.op # "query") => (messages' = messages)
        /\ (last'.op = "query")
              => LET in == last'.in
                     returned_text ==
                         /\ last'.calls # <<>>
                         /\ ~in.resp.raises
                         /\ in.resp.content # Nothing
                         /\ \E i \in 1..Len(in.resp.content[1]) :
                               in.resp.content[1][i] \notin Whitespace
                 IN  IF returned_text
                       THEN /\ Len(messages') = Len(messages) + 1
                            /\ SubSeq(messages', 1, Len(messages)) = messages
                            /\ messages'[Len(messages')][1] = in.query
                            /\ Stripped(in.resp.content[1],
                                        messages'[Len(messages')][2])
                            /\ last'.answer = Some(messages'[Len(messages')][2])
                       ELSE messages' = messages
      ]_vars

\* C22: a question typed while no retriever is active is rejected with an
\* error: query_llm is not called, so nothing is retrieved or generated, and
\* the history is unchanged; query_llm runs only on an active retriever, and
\* a retriever becomes active only by a load or an ingest that succeeded.
C22_NoQueryWithoutRetriever ==
    [][
        /\ (last.op = "boot") => (retriever = Nothing)
        /\ (retriever = Nothing /\ last'.op \in {"query", "query_rejected"})
              => /\ last'.op = "query_rejected"
                 /\ last'.events = <<"error: veuillez d'abord charger les embeddings">>
                 /\ messages' = messages
                 /\ retriever' = Nothing
        /\ (last'.op = "query_rejected") => (retriever = Nothing)
        /\ (last'.op = "query") => (retriever # Nothing /\ retriever' = retriever)
        /\ (retriever = Nothing /\ retriever' # Nothing)
              => (last'.op \in {"load", "ingest"} /\ ~ActionFailed')
      ]_vars

\* A question rejected after the active retriever, which had answered a
\* query, was discarded by a failed load or ingest.
C22_Witness ==
    /\ last.op = "query_rejected"
    /\ retriever = Nothing
    /\ messages # <<>>

====
